---- MODULE Spec2Model ----
(***************************************************************************)
(* Chat-turn orchestration of the chatbot platform: send_message           *)
(* (routes.py), chat_with_openai (openai_client.py) and the rows of        *)
(* models.py they read and write.                                          *)
(*                                                                         *)
(* Text is a sequence of one-character strings, so that str.strip(),       *)
(* str.split() and ' '.join() are computed and not assumed.  Longer        *)
(* literals of the source (the system prompt, the f-string frames of the   *)
(* file summaries) are sequences of string pieces.                         *)
(*                                                                         *)
(* The database is a committed store (messages, sessions) plus, for each   *)
(* request worker, the rows its SQLAlchemy session has flushed inside the  *)
(* open transaction.  db.session has autoflush on (Flask-SQLAlchemy        *)
(* default, app.py:68 passes no session options), so a query flushes the   *)
(* pending objects before it runs.                                         *)
(*                                                                         *)
(* datetime.now() is the variable now.  A step that waits for I/O (the     *)
(* arrival of a request with its database round trips, a call of the       *)
(* external API) advances it by one tick; two reads inside one handler     *)
(* with no I/O between them may fall in the same tick or in two.           *)
(***************************************************************************)
EXTENDS Integers, Sequences, FiniteSets, TLC

VARIABLES
    openai,          \* openai_client.openai is not None (API key configured)
    projects,        \* projects table: id -> row
    uploaded_files,  \* uploaded_files table, in insertion order
    sessions,        \* chat_sessions table: id -> row
    messages,        \* chat_messages table, committed rows in insertion order
    now,             \* datetime.now()
    rq,              \* per worker: the request being handled by send_message
    tt,              \* the title computation applied to one message text
    prompts,         \* prompts table, in insertion order
    disk,            \* the files under UPLOAD_FOLDER: stored name -> bytes
    dq,              \* the last request handled by delete_project
    users,           \* users table, in insertion order
    reg,             \* per worker: the request being handled by register
    uq               \* per worker: the request being handled by upload_file

vars == <<openai, projects, uploaded_files, sessions, messages, now, rq, tt,
          prompts, disk, dq, users, reg, uq>>

----------------------------------------------------------------------------
(* Bounds *)

MaxLen == 2          \* longest message text a request carries
MaxMessages == 3     \* no new request once this many rows are committed
MaxClock == 5        \* no new request once the clock reached this tick
MaxTitleLen == 11    \* longest text the title computation is applied to
MaxRetries == 4      \* largest max_retries chat_with_openai is called with

(* Program constants *)

DefaultMaxRetries == 3      \* chat_with_openai(..., max_retries=3)
TicksPerSecond == 2         \* strftime('%Y%m%d_%H%M%S_') reads whole seconds
TitleWords == 5             \* user_message.split()[:5]

Workers == {1, 2}
SeqWorkers == {1}           \* one client issuing its turns one after another

Chars == {" ", "a"}
Users == {"u1", "u2"}
Callers == Users \cup {"anonymous"}
ProjectIds == {1, 2}
SessionIds == {1, 2}

NewChat == <<"N", "e", "w", " ", "C", "h", "a", "t">>
Ellipsis == <<".", ".", ".">>
BeTerse == <<"Be terse.">>
Replies == {<<"b">>}

NoJson == <<"<no json>">>

----------------------------------------------------------------------------
(* Text helpers *)

Min(a, b) == IF a < b THEN a ELSE b

RECURSIVE Pow2(_)
Pow2(n) == IF n <= 0 THEN 1 ELSE 2 * Pow2(n - 1)

TextsUpTo(n) == UNION {[1..k -> Chars] : k \in 0..n}

IsSpace(c) == c = " "

RECURSIVE LStrip(_)
LStrip(s) ==
    IF s = <<>> THEN s
    ELSE IF IsSpace(Head(s)) THEN LStrip(Tail(s)) ELSE s

RECURSIVE RStrip(_)
RStrip(s) ==
    IF s = <<>> THEN s
    ELSE IF IsSpace(s[Len(s)]) THEN RStrip(SubSeq(s, 1, Len(s) - 1)) ELSE s

StripLeadingOnly(s) == LStrip(s)

StripNothing(s) == s

\* str.strip()
Strip(s) == RStrip(LStrip(s))

RECURSIVE SplitFrom(_, _, _)
SplitFrom(s, cur, acc) ==
    IF s = <<>>
    THEN IF cur = <<>> THEN acc ELSE Append(acc, cur)
    ELSE IF IsSpace(Head(s))
         THEN SplitFrom(Tail(s), <<>>, IF cur = <<>> THEN acc ELSE Append(acc, cur))
         ELSE SplitFrom(Tail(s), Append(cur, Head(s)), acc)

\* str.split() with no argument: runs of whitespace separate, no empty tokens
Split(s) == SplitFrom(s, <<>>, <<>>)

RECURSIVE Join(_, _)
\* sep.join(parts)
Join(parts, sep) ==
    IF parts = <<>> THEN <<>>
    ELSE IF Len(parts) = 1 THEN parts[1]
    ELSE parts[1] \o sep \o Join(Tail(parts), sep)

\* ('...' if len(title_words) == 5 else '')
TitleSuffix(all_words, title_words) ==
    IF Len(title_words) = TitleWords THEN Ellipsis ELSE <<>>

\* the new title computed from the user's message
AutoTitle(user_message) ==
    LET all_words == Split(user_message)
        title_words == SubSeq(all_words, 1, Min(TitleWords, Len(all_words)))
    IN Join(title_words, <<" ">>) \o TitleSuffix(all_words, title_words)

----------------------------------------------------------------------------
(* Rows and queries *)

ChatMessage(id, role, content, chat_session_id, created_at) ==
    [id |-> id, role |-> role, content |-> content,
     chat_session_id |-> chat_session_id, created_at |-> created_at]

RECURSIVE MaxId(_)
MaxId(rows) ==
    IF rows = <<>> THEN 0
    ELSE LET m == MaxId(Tail(rows))
         IN IF Head(rows).id > m THEN Head(rows).id ELSE m

\* autoincrement primary key of the next inserted row
NextId(rows) == MaxId(rows) + 1

RECURSIVE InsertByCreatedAt(_, _)
InsertByCreatedAt(sorted, row) ==
    IF sorted = <<>> THEN <<row>>
    ELSE IF row.created_at < Head(sorted).created_at
         THEN <<row>> \o sorted
         ELSE <<Head(sorted)>> \o InsertByCreatedAt(Tail(sorted), row)

RECURSIVE OrderByCreatedAt(_)
\* .order_by(ChatMessage.created_at.asc()); equal keys keep insertion order
OrderByCreatedAt(rows) ==
    IF rows = <<>> THEN <<>>
    ELSE InsertByCreatedAt(OrderByCreatedAt(SubSeq(rows, 1, Len(rows) - 1)),
                           rows[Len(rows)])

\* ChatMessage.query.filter_by(chat_session_id=...).order_by(created_at.asc()).all()
\* run inside a transaction that sees the committed rows and its own flushed rows
SessionMessages(visible, session_id) ==
    LET InSession(m) == m.chat_session_id = session_id
    IN OrderByCreatedAt(SelectSeq(visible, InSession))

\* the rows a worker's transaction sees
Visible(committed, flushed) == committed \o flushed

\* Project.query.filter_by(id=project_id, user_id=g.current_user.id).first()
ProjectFound(project_id, caller) ==
    /\ project_id \in DOMAIN projects
    /\ projects[project_id].user_id = caller

\* ChatSession.query.filter_by(id=session_id, project_id=project_id).first()
SessionFound(session_id, project_id) ==
    /\ session_id \in DOMAIN sessions
    /\ sessions[session_id].project_id = project_id

RollbackKeepsFlushed(committed, flushed) == committed \o flushed

\* db.session.rollback(): the store keeps what was committed
Rollback(committed, flushed) == committed

CommitDropsFlushed(committed, flushed, added) == committed \o added

\* db.session.commit(): flushed and newly flushed rows become durable
Commit(committed, flushed, added) == committed \o flushed \o added

----------------------------------------------------------------------------
(* File context (routes.py 224-257) *)

ReadCap == 2048

\* bytes on disk under UPLOAD_FOLDER
DiskText(filename) ==
    IF filename \in DOMAIN disk THEN disk[filename] ELSE <<>>

Extractable(f) ==
    f.file_type \in {"text/plain", "txt", "application/pdf", "pdf",
                     "application/vnd.openxmlformats-officedocument.wordprocessingml.document",
                     "application/msword", "docx", "doc"}

IsImage(f) == f.file_type \in {"image/png", "image/jpeg", "image/gif"}

\* one element of file_summaries, or nothing when the read raised
FileSummary(f, unreadable) ==
    IF f.file_type \in {"text/plain", "txt"}
    THEN IF f.filename \in unreadable THEN <<>>
         ELSE LET content == SubSeq(DiskText(f.filename), 1,
                                    Min(ReadCap, Len(DiskText(f.filename))))
              IN <<<<"File '", f.original_filename, "':\n">> \o content \o <<"\n">>>>
    ELSE IF f.file_type \in {"application/pdf", "pdf"}
    THEN IF f.filename \in unreadable THEN <<>>
         ELSE LET text == DiskText(f.filename)
              IN <<<<"File '", f.original_filename, "' (PDF):\n">>
                   \o SubSeq(text, 1, Min(ReadCap, Len(text))) \o <<"\n">>>>
    ELSE IF Extractable(f)
    THEN IF f.filename \in unreadable THEN <<>>
         ELSE LET text == DiskText(f.filename)
              IN <<<<"File '", f.original_filename, "' (DOCX):\n">>
                   \o SubSeq(text, 1, Min(ReadCap, Len(text))) \o <<"\n">>>>
    ELSE IF IsImage(f)
    THEN <<<<"File '", f.original_filename,
             "' is an image. (Image content not extracted.)\n">>>>
    ELSE <<<<"File '", f.original_filename, "' is of type ", f.file_type,
             ". Content extraction not supported.\n">>>>

RECURSIVE FileSummaries(_, _)
FileSummaries(files, unreadable) ==
    IF files = <<>> THEN <<>>
    ELSE FileSummary(Head(files), unreadable) \o FileSummaries(Tail(files), unreadable)

\* UploadedFile.query.filter_by(project_id=project_id).all()
ProjectFiles(project_id) ==
    LET OfProject(f) == f.project_id = project_id
    IN SelectSeq(uploaded_files, OfProject)

FilesContextAllOrNothing(project_id, unreadable) ==
    IF unreadable # {} THEN <<>>
    ELSE Join(FileSummaries(ProjectFiles(project_id), {}), <<"\n">>)

\* files_context = "\n".join(file_summaries) if file_summaries else ""
FilesContext(project_id, unreadable) ==
    Join(FileSummaries(ProjectFiles(project_id), unreadable), <<"\n">>)

ExtractableNames(project_id) ==
    {ProjectFiles(project_id)[i].filename : i \in
        {j \in 1..Len(ProjectFiles(project_id)) : Extractable(ProjectFiles(project_id)[j])}}

----------------------------------------------------------------------------
(* Context assembly (routes.py 259-271, openai_client.py 32-36) *)

Entry(role, content) == [role |-> role, content |-> content]

FilesIntro == <<"The following files are available for this project:\n">>

RECURSIVE HistoryEntries(_)
HistoryEntries(rows) ==
    IF rows = <<>> THEN <<>>
    ELSE <<Entry(Head(rows).role, Head(rows).content)>> \o HistoryEntries(Tail(rows))

\* the list send_message passes to chat_with_openai
AssembleMessages(files_context, previous_messages, user_message) ==
    (IF files_context # <<>>
     THEN <<Entry("system", FilesIntro \o files_context)>> ELSE <<>>)
    \o HistoryEntries(previous_messages)
    \o <<Entry("user", user_message)>>

\* chat_messages of chat_with_openai
ChatMessages(msgs, system_prompt) ==
    (IF system_prompt # <<>> THEN <<Entry("system", system_prompt)>> ELSE <<>>)
    \o msgs

----------------------------------------------------------------------------
(* Requests *)

Bodies == {NoJson} \cup TextsUpTo(MaxLen)

ApiErrors == {"RateLimitError", "APIConnectionError", "APIError", "Exception"}
ApiOutcomes == {"ok"} \cup ApiErrors

NoneValue == <<"<None>">>

StatusOk == 200
StatusBadRequest == 400
StatusUnauthorized == 401
StatusUnavailable == 503
StatusServerError == 500
StatusNotFound == 404

IdleReq ==
    [pc |-> "idle", caller |-> "anonymous", project_id |-> 1, session_id |-> 1,
     body |-> NoJson, user_message |-> <<>>,
     pre_messages |-> <<>>, pre_sessions |-> <<>>,
     flushed |-> <<>>, previous_messages |-> <<>>, files_context |-> <<>>,
     unreadable |-> {}, messages |-> <<>>, system_prompt |-> <<>>,
     max_retries |-> DefaultMaxRetries, chat_messages |-> <<>>,
     attempt |-> 0, api_calls |-> 0, waits |-> <<>>, last_error |-> "none",
     raised |-> "none", ai_response |-> NoneValue, added |-> <<>>, status |-> 0]

Finish(r, status) == [r EXCEPT !.pc = "done", !.status = status, !.flushed = <<>>]

\* wait_time = (2 ** attempt) + 1
WaitTimeLinear(attempt) == 2 * attempt + 2

\* wait_time = (2 ** attempt) + 1
WaitTime(attempt) == Pow2(attempt) + 1

ShouldRetryAlways(attempt, max_retries) == TRUE

ShouldRetryOneLess(attempt, max_retries) == attempt < max_retries - 2

\* if attempt < max_retries - 1
ShouldRetry(attempt, max_retries) == attempt < max_retries - 1

UnconfiguredNever(client) == FALSE

\* if not openai
Unconfigured(client) == ~client

\* the exception an except clause of chat_with_openai raises on the last attempt
RaisedFor(error) ==
    IF error = "RateLimitError"
    THEN "OpenAI rate limit exceeded. Please try again later."
    ELSE IF error = "APIConnectionError"
    THEN "Failed to connect to OpenAI API. Please check your internet connection."
    ELSE IF error = "APIError"
    THEN "OpenAI API error: {e}"
    ELSE "Failed to generate chat response: {e}"

NotConfigured == "OpenAI API key is not configured"

\* send_message up to the call of chat_with_openai (routes.py 194-271)
Received(r, unreadable, flush_ok, t0, id) ==
    IF r.caller = "anonymous"
    THEN Finish(r, StatusUnauthorized)
    ELSE IF ~ProjectFound(r.project_id, r.caller)
    THEN Finish(r, StatusServerError)    \* first_or_404 raises inside the try
    ELSE IF ~SessionFound(r.session_id, r.project_id)
    THEN Finish(r, StatusServerError)
    ELSE IF r.body = NoJson
    THEN Finish(r, StatusBadRequest)
    ELSE LET user_message == Strip(r.body) IN
         IF user_message = <<>>
         THEN Finish(r, StatusBadRequest)
         ELSE IF ~flush_ok
         THEN Finish([r EXCEPT !.user_message = user_message], StatusServerError)
         ELSE LET user_msg == ChatMessage(id, "user", user_message,
                                          r.session_id, t0)
                  flushed == <<user_msg>>
                  previous_messages ==
                      SessionMessages(Visible(messages, flushed), r.session_id)
                  files_context == FilesContext(r.project_id, unreadable)
              IN [r EXCEPT !.pc = "enter_chat",
                           !.user_message = user_message,
                           !.flushed = flushed,
                           !.previous_messages = previous_messages,
                           !.unreadable = unreadable,
                           !.files_context = files_context,
                           !.messages = AssembleMessages(files_context,
                                                         previous_messages,
                                                         user_message),
                           !.system_prompt = projects[r.project_id].system_prompt]

\* the request gets as far as db.session.add(user_msg)
ReachesFlush(caller, project_id, session_id, body) ==
    /\ ProjectFound(project_id, caller)
    /\ SessionFound(session_id, project_id)
    /\ body # NoJson
    /\ Strip(body) # <<>>

\* the rows that have taken a primary key: committed, or flushed by an open
\* transaction
Allocated == messages \o rq[1].flushed \o rq[2].flushed

\* a request arrives at send_message; the caller, the ids of the URL and the
\* body are drawn from the given sets
BeginWith(w, callers, project_ids, session_ids, bodies) ==
    /\ rq[w].pc \in {"idle", "done"}
    /\ now < MaxClock
    /\ Len(messages) < MaxMessages
    /\ \E caller \in callers, project_id \in project_ids, session_id \in session_ids,
          body \in bodies :
        LET r == [IdleReq EXCEPT !.caller = caller,
                                 !.project_id = project_id,
                                 !.session_id = session_id,
                                 !.body = body,
                                 !.pre_messages = messages,
                                 !.pre_sessions = sessions]
        IN /\ now' = now + 1
           /\ IF ReachesFlush(caller, project_id, session_id, body)
              THEN \E flush_ok \in BOOLEAN,
                      unreadable \in SUBSET ExtractableNames(project_id) :
                       rq' = [rq EXCEPT ![w] =
                                Received(r, IF flush_ok THEN unreadable ELSE {},
                                         flush_ok, now + 1, NextId(Allocated))]
              ELSE rq' = [rq EXCEPT ![w] =
                            Received(r, {}, TRUE, now + 1, NextId(Allocated))]
    /\ UNCHANGED <<openai, projects, uploaded_files, sessions, messages, tt,
                   prompts, disk, dq, users, reg, uq>>

Begin(w) == BeginWith(w, Callers, ProjectIds, SessionIds, Bodies)

\* a turn of the owner of project 2 on its session 2
BeginOnSession2(w) == BeginWith(w, {"u2"}, {2}, {2}, {<<"a">>})

\* chat_with_openai before its loop (openai_client.py 26-38), and the
\* except branch of send_message when it raises (routes.py 276-280)
EnterChat(w) ==
    /\ rq[w].pc = "enter_chat"
    /\ LET r == rq[w] IN
       IF Unconfigured(openai)
       THEN /\ messages' = Rollback(messages, r.flushed)
            /\ rq' = [rq EXCEPT ![w] =
                        Finish([r EXCEPT !.last_error = "RuntimeError",
                                         !.raised = NotConfigured],
                               StatusUnavailable)]
       ELSE /\ messages' = messages
            /\ rq' = [rq EXCEPT ![w] =
                        [r EXCEPT !.chat_messages = ChatMessages(r.messages, r.system_prompt),
                                  !.pc = IF r.max_retries > 0 THEN "calling" ELSE "persist"]]
    /\ UNCHANGED <<openai, projects, uploaded_files, sessions, now, tt,
                   prompts, disk, dq, users, reg, uq>>

ReturnsAfterLoop(r, reply) ==
    [r EXCEPT !.ai_response = reply,
              !.attempt = @ + 1,
              !.pc = IF r.attempt + 1 < r.max_retries THEN "calling" ELSE "persist"]

\* return response.choices[0].message.content, inside the loop
Returns(r, reply) == [r EXCEPT !.ai_response = reply, !.pc = "persist"]

\* one iteration of the retry loop (openai_client.py 40-83), with the
\* except branch of send_message when the last attempt raises
ApiCall(w) ==
    /\ rq[w].pc = "calling"
    /\ \E outcome \in ApiOutcomes, reply \in Replies :
        LET r == [rq[w] EXCEPT !.api_calls = @ + 1] IN
        IF outcome = "ok"
        THEN /\ rq' = [rq EXCEPT ![w] = Returns(r, reply)]
             /\ messages' = messages
        ELSE IF ShouldRetry(r.attempt, r.max_retries)
        THEN /\ rq' = [rq EXCEPT ![w] =
                         [r EXCEPT !.waits = Append(@, WaitTime(r.attempt)),
                                   !.attempt = @ + 1,
                                   !.last_error = outcome,
                                   \* for attempt in range(max_retries)
                                   !.pc = IF r.attempt + 1 < r.max_retries
                                          THEN "calling" ELSE "persist"]]
             /\ messages' = messages
        ELSE /\ rq' = [rq EXCEPT ![w] =
                         Finish([r EXCEPT !.last_error = outcome,
                                          !.raised = RaisedFor(outcome)],
                                StatusUnavailable)]
             /\ messages' = Rollback(messages, r.flushed)
    /\ now' = now + 1
    /\ UNCHANGED <<openai, projects, uploaded_files, sessions, tt,
                   prompts, disk, dq, users, reg, uq>>

UpdatedSessionAlwaysTitles(row, previous_messages, user_message, t1) ==
    [row EXCEPT !.updated_at = t1, !.title = AutoTitle(user_message)]

UpdatedSessionKeepsTime(row, previous_messages, user_message, t1) ==
    [row EXCEPT !.title = IF row.title = NewChat /\ Len(previous_messages) = 0
                          THEN AutoTitle(user_message) ELSE @]

\* the session row after lines 289-292
UpdatedSession(row, previous_messages, user_message, t1) ==
    [row EXCEPT !.updated_at = t1,
                !.title = IF row.title = NewChat /\ Len(previous_messages) = 0
                          THEN AutoTitle(user_message) ELSE @]

\* saving the AI response (routes.py 282-311)
Persist(w) ==
    /\ rq[w].pc = "persist"
    /\ \E tick \in {0, 1}, commit_ok \in BOOLEAN :
        LET r == rq[w]
            t1 == now                  \* chat_session.updated_at = datetime.now()
            t2 == t1 + tick            \* created_at default, evaluated by the flush
            ai_msg == ChatMessage(NextId(Allocated), "assistant",
                                  r.ai_response, r.session_id, t2)
        IN /\ now' = t2
           /\ IF commit_ok /\ r.ai_response # NoneValue
              THEN /\ messages' = Commit(messages, r.flushed, <<ai_msg>>)
                   /\ sessions' = [sessions EXCEPT ![r.session_id] =
                                      UpdatedSession(@, r.previous_messages,
                                                     r.user_message, t1)]
                   /\ rq' = [rq EXCEPT ![w] =
                               Finish([r EXCEPT !.added = r.flushed \o <<ai_msg>>],
                                      StatusOk)]
              ELSE /\ messages' = Rollback(messages, r.flushed)
                   /\ sessions' = sessions
                   /\ rq' = [rq EXCEPT ![w] = Finish(r, StatusServerError)]
    /\ UNCHANGED <<openai, projects, uploaded_files, tt,
                   prompts, disk, dq, users, reg, uq>>

----------------------------------------------------------------------------
(* The title computation on its own *)

ComputeTitle ==
    /\ ~tt.applied
    /\ tt' = [tt EXCEPT !.user_message = Strip(tt.text),
                        !.title = AutoTitle(Strip(tt.text)),
                        !.applied = TRUE]
    /\ UNCHANGED <<openai, projects, uploaded_files, sessions, messages, now, rq,
                   prompts, disk, dq, users, reg, uq>>

----------------------------------------------------------------------------
(* delete_project (routes.py 368-398) *)

MissingProject == 3         \* an id no project row has

\* an empty UPLOAD_FOLDER
NoFiles == [filename \in {} |-> <<>>]

\* os.remove(file_path)
Removed(on_disk, filename) ==
    [name \in DOMAIN on_disk \ {filename} |-> on_disk[name]]

IdleDelete ==
    [caller |-> "anonymous", project_id |-> 1, remove_fails |-> {},
     commit_ok |-> TRUE, status |-> 0]

\* project.chat_sessions
ProjectSessions(project_id) ==
    {s \in DOMAIN sessions : sessions[s].project_id = project_id}

\* uploaded_file.filename of each row
FileNames(files) == {files[i].filename : i \in DOMAIN files}

RECURSIVE RemoveLocalFiles(_, _, _)
\* the loop over project.uploaded_files: os.remove of each file that exists;
\* an error of one file is logged and the loop goes on
RemoveLocalFiles(on_disk, files, remove_fails) ==
    IF files = <<>> THEN on_disk
    ELSE LET filename == Head(files).filename
             after == IF filename \in DOMAIN on_disk /\ filename \notin remove_fails
                      THEN Removed(on_disk, filename)
                      ELSE on_disk
         IN RemoveLocalFiles(after, Tail(files), remove_fails)

\* cascade="all, delete-orphan" of a relationship of Project: the rows of a
\* child table that are left after the project is deleted
CascadeRows(rows, project_id) ==
    LET OfOther(r) == r.project_id # project_id
    IN SelectSeq(rows, OfOther)

\* cascade of Project.chat_sessions
CascadeSessions(project_id) ==
    [s \in DOMAIN sessions \ ProjectSessions(project_id) |-> sessions[s]]

\* cascade of ChatSession.messages for the sessions deleted with the project
CascadeMessages(project_id) ==
    LET OfOther(m) == m.chat_session_id \notin ProjectSessions(project_id)
    IN SelectSeq(messages, OfOther)

DeleteProject ==
    /\ \E caller \in Callers, project_id \in ProjectIds \cup {MissingProject} :
         LET q == [IdleDelete EXCEPT !.caller = caller,
                                     !.project_id = project_id]
         IN IF caller = "anonymous"
            THEN \* jwt_required() rejects the request before the handler runs
                 /\ dq' = [q EXCEPT !.status = StatusUnauthorized]
                 /\ UNCHANGED <<projects, uploaded_files, sessions, messages,
                                prompts, disk>>
            ELSE IF ~ProjectFound(project_id, caller)
            THEN \* first_or_404 raises inside try: rollback, 500
                 /\ dq' = [q EXCEPT !.status = StatusServerError]
                 /\ UNCHANGED <<projects, uploaded_files, sessions, messages,
                                prompts, disk>>
            ELSE \E remove_fails \in SUBSET FileNames(ProjectFiles(project_id)),
                    commit_ok \in BOOLEAN :
                 /\ disk' = RemoveLocalFiles(disk, ProjectFiles(project_id),
                                             remove_fails)
                 /\ IF commit_ok
                    THEN /\ projects' = [p \in DOMAIN projects \ {project_id}
                                            |-> projects[p]]
                         /\ sessions' = CascadeSessions(project_id)
                         /\ messages' = CascadeMessages(project_id)
                         /\ prompts' = CascadeRows(prompts, project_id)
                         /\ uploaded_files' = CascadeRows(uploaded_files, project_id)
                         /\ dq' = [q EXCEPT !.remove_fails = remove_fails,
                                            !.status = StatusOk]
                    ELSE \* db.session.commit() raises: rollback, 500
                         /\ UNCHANGED <<projects, uploaded_files, sessions,
                                        messages, prompts>>
                         /\ dq' = [q EXCEPT !.remove_fails = remove_fails,
                                            !.commit_ok = FALSE,
                                            !.status = StatusServerError]
    /\ UNCHANGED <<openai, now, rq, tt, users, reg, uq>>

----------------------------------------------------------------------------
(* register (auth_routes.py 15-80) *)

MinPasswordLen == 8
StatusCreated == 201
StatusConflict == 409

\* str.lower() of one character
LowerChar(c) == IF c = "A" THEN "a" ELSE c

Lower(text) == [i \in 1..Len(text) |-> LowerChar(text[i])]

LocalChars == {"a", "A", "."}       \* [a-zA-Z0-9._%+-]
DomainChars == {"a", "A", "."}      \* [a-zA-Z0-9.-]
Letters == {"a", "A"}               \* [a-zA-Z]

\* re.match(r'^[a-zA-Z0-9._%+-]+@[a-zA-Z0-9.-]+\.[a-zA-Z]{2,}$', email)
validate_email(email) ==
    \E i \in 1..Len(email), j \in 1..Len(email) :
        /\ email[i] = "@"
        /\ i > 1
        /\ \A k \in 1..(i - 1) : email[k] \in LocalChars
        /\ j > i + 1
        /\ email[j] = "."
        /\ \A k \in (i + 1)..(j - 1) : email[k] \in DomainChars
        /\ Len(email) - j >= 2
        /\ \A k \in (j + 1)..Len(email) : email[k] \in Letters

\* the texts a register request carries as its email
EmailInputs ==
    {<<>>,
     <<"a", "@", "a", ".", "a", "a">>,
     <<" ", "A", "@", "a", ".", "a", "a", " ">>,
     <<"a", "a", "@", "a", ".", "a", "a">>,
     <<"a", "@", "a", ".", "a">>,
     <<"a", " ", "@", "a", ".", "a", "a">>}

\* the texts a register request carries as its password
PasswordInputs == {[i \in 1..n |-> "p"] : n \in {0, MinPasswordLen - 1, MinPasswordLen}}

IdleRegister ==
    [pc |-> "idle", has_json |-> FALSE, email_in |-> <<>>, password |-> <<>>,
     email |-> <<>>, pre_users |-> <<>>, status |-> 0]

\* User.query.filter_by(email=email).first() is not None
EmailStored(rows, email) == \E i \in 1..Len(rows) : rows[i].email = email

UniqueConstraintOff(rows, row) == FALSE

\* email = db.Column(db.String, unique=True, nullable=False), checked by the
\* database when the INSERT of the row is flushed
UniqueViolation(rows, row) == \E i \in 1..Len(rows) : rows[i].email = row.email

\* str(uuid.uuid4()): an id no stored row has
uuid4(rows) == Len(rows) + 1

\* register up to the existence check (auth_routes.py 22-45)
RegisterCheck(w) ==
    /\ reg[w].pc \in {"idle", "done"}
    /\ \E has_json \in BOOLEAN, email_in \in EmailInputs, password \in PasswordInputs :
         LET r == [IdleRegister EXCEPT !.has_json = has_json,
                                       !.email_in = IF has_json THEN email_in ELSE <<>>,
                                       !.password = IF has_json THEN password ELSE <<>>,
                                       !.pre_users = users]
             email == Lower(Strip(r.email_in))
             Reply(status) == [r EXCEPT !.pc = "done", !.email = email,
                                        !.status = status]
         IN reg' = [reg EXCEPT ![w] =
                IF ~has_json THEN [r EXCEPT !.pc = "done", !.status = StatusBadRequest]
                ELSE IF email = <<>> \/ password = <<>> THEN Reply(StatusBadRequest)
                ELSE IF ~validate_email(email) THEN Reply(StatusBadRequest)
                ELSE IF Len(password) < MinPasswordLen THEN Reply(StatusBadRequest)
                ELSE IF EmailStored(users, email) THEN Reply(StatusConflict)
                ELSE [r EXCEPT !.pc = "commit", !.email = email]]
    /\ UNCHANGED <<openai, projects, uploaded_files, sessions, messages, now, rq, tt,
                   prompts, disk, dq, users, uq>>

\* register from db.session.add(user) to its return (auth_routes.py 47-80)
RegisterCommit(w) ==
    /\ reg[w].pc = "commit"
    /\ \E commit_ok \in BOOLEAN :
         LET r == reg[w]
             user == [id |-> uuid4(users), email |-> r.email]
         IN IF commit_ok /\ ~UniqueViolation(users, user)
            THEN /\ users' = Append(users, user)
                 /\ reg' = [reg EXCEPT ![w] = [r EXCEPT !.pc = "done",
                                                        !.status = StatusCreated]]
            ELSE \* the commit raises: rollback, 500
                 /\ users' = users
                 /\ reg' = [reg EXCEPT ![w] = [r EXCEPT !.pc = "done",
                                                        !.status = StatusServerError]]
    /\ UNCHANGED <<openai, projects, uploaded_files, sessions, messages, now, rq, tt,
                   prompts, disk, dq, uq>>

----------------------------------------------------------------------------
(* upload_file (routes.py 313-366) *)

StatusRedirect == 302

ALLOWED_EXTENSIONS == {"txt", "pdf", "png", "jpg", "jpeg", "gif", "doc", "docx"}

\* file.filename of the uploads; "" is a request without a selected file
UploadNames == {"", "f.txt", "../f.txt", "f.exe"}

\* the bytes of the uploads
UploadContents == {<<"x">>, <<"y">>}

\* filename.rsplit('.', 1)[1].lower()
Extension(filename) ==
    IF filename \in {"f.txt", "../f.txt"} THEN "txt"
    ELSE IF filename = "f.exe" THEN "exe" ELSE ""

\* '.' in filename and filename.rsplit('.', 1)[1].lower() in ALLOWED_EXTENSIONS
allowed_file(filename) ==
    /\ filename \in {"f.txt", "../f.txt", "f.exe"}
    /\ Extension(filename) \in ALLOWED_EXTENSIONS

\* werkzeug.utils.secure_filename: path separators and leading dots are dropped
secure_filename(filename) == IF filename = "../f.txt" THEN "f.txt" ELSE filename

\* datetime.now().strftime('%Y%m%d_%H%M%S_'): the clock read to the second
Timestamp(t) == ToString(t \div TicksPerSecond) \o "_"

IdleUpload ==
    [pc |-> "idle", caller |-> "anonymous", project_id |-> 1,
     original_filename |-> "", content |-> <<>>, filename |-> "",
     status |-> 0, stored |-> FALSE]

\* file.save(file_path): the bytes are written, over a file of that name if any
Saved(on_disk, filename, content) ==
    [name \in DOMAIN on_disk \cup {filename} |->
        IF name = filename THEN content ELSE on_disk[name]]

\* upload_file from the arrival of a POST to file.save (routes.py 313-336)
UploadSave(w) ==
    /\ uq[w].pc \in {"idle", "done"}
    /\ now < MaxClock
    /\ now' = now + 1
    /\ \E caller \in Callers, project_id \in ProjectIds \cup {MissingProject},
          original_filename \in UploadNames, content \in UploadContents :
         LET q == [IdleUpload EXCEPT !.caller = caller, !.project_id = project_id]
             Reply(status) == [q EXCEPT !.pc = "done", !.status = status]
         IN IF caller = "anonymous"
            THEN uq' = [uq EXCEPT ![w] = Reply(StatusUnauthorized)] /\ disk' = disk
            ELSE IF ~ProjectFound(project_id, caller)
            THEN uq' = [uq EXCEPT ![w] = Reply(StatusNotFound)] /\ disk' = disk
            ELSE IF original_filename = ""
            THEN uq' = [uq EXCEPT ![w] = Reply(StatusRedirect)] /\ disk' = disk
            ELSE IF ~allowed_file(original_filename)
            THEN uq' = [uq EXCEPT ![w] = Reply(StatusOk)] /\ disk' = disk
            ELSE LET filename == Timestamp(now + 1) \o secure_filename(original_filename)
                 IN /\ disk' = Saved(disk, filename, content)
                    /\ uq' = [uq EXCEPT ![w] =
                                [q EXCEPT !.pc = "saved",
                                          !.original_filename = original_filename,
                                          !.content = content,
                                          !.filename = filename]]
    /\ UNCHANGED <<openai, projects, uploaded_files, sessions, messages, rq, tt,
                   prompts, dq, users, reg>>

\* upload_file from upload_file_to_openai to its return (routes.py 338-366)
UploadRegister(w) ==
    /\ uq[w].pc = "saved"
    /\ \E openai_ok \in BOOLEAN, commit_ok \in BOOLEAN :
         LET q == uq[w]
             \* open(file_path, "rb") and os.path.getsize(file_path)
             readable == q.filename \in DOMAIN disk
             uploaded_file == [id |-> NextId(uploaded_files),
                               filename |-> q.filename,
                               original_filename |-> q.original_filename,
                               file_type |-> "text/plain",
                               project_id |-> q.project_id]
         IN IF ~Unconfigured(openai) /\ readable /\ openai_ok /\ commit_ok
            THEN /\ uploaded_files' = Append(uploaded_files, uploaded_file)
                 /\ disk' = disk
                 /\ uq' = [uq EXCEPT ![w] = [q EXCEPT !.pc = "done", !.stored = TRUE,
                                                      !.status = StatusOk]]
            ELSE \* the except branch: the local file is removed if it exists
                 /\ (openai_ok \/ commit_ok)
                 /\ uploaded_files' = uploaded_files
                 /\ disk' = IF q.filename \in DOMAIN disk
                            THEN Removed(disk, q.filename) ELSE disk
                 /\ uq' = [uq EXCEPT ![w] =
                      [q EXCEPT !.pc = "done",
                                \* a failed commit leaves the session unusable
                                \* for the query at line 365
                                !.status = IF ~Unconfigured(openai) /\ openai_ok /\ readable
                                           THEN StatusServerError ELSE StatusOk]]
    /\ now' = now + 1        \* the call of the external API
    /\ UNCHANGED <<openai, projects, sessions, messages, rq, tt,
                   prompts, dq, users, reg>>

----------------------------------------------------------------------------
(* Specifications *)

InitTables ==
    /\ projects = (1 :> [user_id |-> "u1", system_prompt |-> BeTerse]
                   @@ 2 :> [user_id |-> "u2", system_prompt |-> <<>>])
    /\ uploaded_files =
         <<[id |-> 1, filename |-> "t_f1.txt", original_filename |-> "f1.txt",
            file_type |-> "text/plain", project_id |-> 1],
           [id |-> 2, filename |-> "t_f2.pdf", original_filename |-> "f2.pdf",
            file_type |-> "application/pdf", project_id |-> 1]>>
    /\ sessions = (1 :> [title |-> NewChat, project_id |-> 1, updated_at |-> 0]
                   @@ 2 :> [title |-> NewChat, project_id |-> 2, updated_at |-> 0])
    /\ messages = <<>>
    /\ prompts = <<[id |-> 1, project_id |-> 1]>>
    /\ disk = ("t_f1.txt" :> <<"F1 content">> @@ "t_f2.pdf" :> <<"F2 text">>)
    /\ users = <<[id |-> "u1", email |-> <<"a", "@", "a", ".", "a", "a">>],
                 [id |-> "u2", email |-> <<"a", "a", "@", "a", ".", "a", "a">>]>>
    /\ reg = [w \in Workers |-> IdleRegister]
    /\ uq = [w \in Workers |-> IdleUpload]

InitStore ==
    /\ InitTables
    /\ now = 0
    /\ rq = [w \in Workers |-> IdleReq]
    /\ dq = IdleDelete

IdleTitle == [text |-> <<>>, user_message |-> <<>>, title |-> <<>>, applied |-> FALSE]

Init ==
    /\ openai \in BOOLEAN
    /\ InitStore
    /\ tt = IdleTitle

Next == \E w \in SeqWorkers : Begin(w) \/ EnterChat(w) \/ ApiCall(w) \/ Persist(w)

Spec == Init /\ [][Next]_vars

InitTitle ==
    /\ openai = TRUE
    /\ InitStore
    /\ tt \in {[IdleTitle EXCEPT !.text = t] : t \in TextsUpTo(MaxTitleLen)}

NextTitle == ComputeTitle

SpecTitle == InitTitle /\ [][NextTitle]_vars

\* chat_with_openai called by a turn that has just flushed its user row, for
\* every value of max_retries; the worker runs the handler to its return
Dispatched(project_id, body, unreadable, max_retries) ==
    LET r == [IdleReq EXCEPT !.caller = projects[project_id].user_id,
                             !.project_id = project_id,
                             !.session_id = project_id,
                             !.body = body,
                             !.pre_messages = messages,
                             !.pre_sessions = sessions]
    IN [Received(r, unreadable, TRUE, 1, NextId(messages)) EXCEPT !.max_retries = max_retries]

InitChat ==
    /\ openai \in BOOLEAN
    /\ InitTables
    /\ now = 1
    /\ dq = IdleDelete
    /\ \E project_id \in ProjectIds, max_retries \in (0 - 1)..MaxRetries :
         \E body \in {b \in Bodies : ReachesFlush(projects[project_id].user_id,
                                                  project_id, project_id, b)} :
             rq = [w \in Workers |->
                     IF w \in SeqWorkers
                     THEN Dispatched(project_id, body, {}, max_retries)
                     ELSE IdleReq]
    /\ tt = IdleTitle

NextChat == \E w \in SeqWorkers : EnterChat(w) \/ ApiCall(w) \/ Persist(w)

SpecChat == InitChat /\ [][NextChat]_vars /\ WF_vars(NextChat)

\* one committed turn of a session
StoredTurn(session_id, first_id, created_at) ==
    <<ChatMessage(first_id, "user", <<"a">>, session_id, created_at),
      ChatMessage(first_id + 1, "assistant", <<"b">>, session_id, created_at)>>

\* projects with sessions that may have had a turn, prompts and uploads;
\* every uploaded_files row has its file under UPLOAD_FOLDER
InitDelete ==
    /\ openai = TRUE
    /\ projects = (1 :> [user_id |-> "u1", system_prompt |-> BeTerse]
                   @@ 2 :> [user_id |-> "u2", system_prompt |-> <<>>])
    /\ uploaded_files =
         <<[id |-> 1, filename |-> "t_f1.txt", original_filename |-> "f1.txt",
            file_type |-> "text/plain", project_id |-> 1],
           [id |-> 2, filename |-> "t_f2.pdf", original_filename |-> "f2.pdf",
            file_type |-> "application/pdf", project_id |-> 1],
           [id |-> 3, filename |-> "t_f3.txt", original_filename |-> "f3.txt",
            file_type |-> "text/plain", project_id |-> 2]>>
    /\ disk = ("t_f1.txt" :> <<"F1 content">> @@ "t_f2.pdf" :> <<"F2 text">>
               @@ "t_f3.txt" :> <<"F3 content">>)
    /\ users = <<[id |-> "u1", email |-> <<"a", "@", "a", ".", "a", "a">>],
                 [id |-> "u2", email |-> <<"a", "a", "@", "a", ".", "a", "a">>]>>
    /\ reg = [w \in Workers |-> IdleRegister]
    /\ uq = [w \in Workers |-> IdleUpload]
    /\ \E turns1 \in 0..1, turns2 \in 0..1 :
         /\ messages = (IF turns1 = 1 THEN StoredTurn(1, 1, 1) ELSE <<>>)
                        \o (IF turns2 = 1 THEN StoredTurn(2, 1 + 2 * turns1, 2)
                            ELSE <<>>)
         /\ sessions = (1 :> [title |-> NewChat, project_id |-> 1,
                              updated_at |-> turns1]
                        @@ 2 :> [title |-> NewChat, project_id |-> 2,
                                 updated_at |-> 2 * turns2])
    /\ prompts \in {<<[id |-> 1, project_id |-> 1]>>,
                     <<[id |-> 1, project_id |-> 1], [id |-> 2, project_id |-> 2]>>}
    /\ now = 3
    /\ rq = [w \in Workers |-> IdleReq]
    /\ tt = IdleTitle
    /\ dq = IdleDelete

NextDelete == DeleteProject

SpecDelete == InitDelete /\ [][NextDelete]_vars

\* a database just created by db.create_all(): no rows, no uploads
InitRegister ==
    /\ openai = TRUE
    /\ projects = <<>>
    /\ uploaded_files = <<>>
    /\ sessions = <<>>
    /\ messages = <<>>
    /\ prompts = <<>>
    /\ disk = NoFiles
    /\ users = <<>>
    /\ now = 0
    /\ rq = [w \in Workers |-> IdleReq]
    /\ tt = IdleTitle
    /\ dq = IdleDelete
    /\ reg = [w \in Workers |-> IdleRegister]
    /\ uq = [w \in Workers |-> IdleUpload]

\* register requests handled by two workers at once
NextRegister == \E w \in Workers : RegisterCheck(w) \/ RegisterCommit(w)

SpecRegister == InitRegister /\ [][NextRegister]_vars

\* uploads handled by two workers at once
InitUpload ==
    /\ openai = TRUE
    /\ InitTables
    /\ now \in {MaxClock - 3, MaxClock - 2}
    /\ rq = [w \in Workers |-> IdleReq]
    /\ dq = IdleDelete
    /\ tt = IdleTitle

NextUpload ==
    \E w \in Workers : UploadSave(w) \/ UploadRegister(w)

SpecUpload == InitUpload /\ [][NextUpload]_vars

\* two workers handling turns on the same session at once, each in its own
\* transaction
InitRace ==
    /\ openai = TRUE
    /\ InitTables
    /\ now = MaxClock - 2
    /\ rq = [w \in Workers |-> IdleReq]
    /\ dq = IdleDelete
    /\ tt = IdleTitle

NextRace ==
    \E w \in Workers : BeginOnSession2(w) \/ EnterChat(w) \/ ApiCall(w) \/ Persist(w)

SpecRace == InitRace /\ [][NextRace]_vars

----------------------------------------------------------------------------
(* Vocabulary of the properties *)

Succeeded(r) == r.pc = "done" /\ r.status = StatusOk

\* the caller is authenticated and names its own project and a session of it
Addressed(r) ==
    /\ r.pc # "idle"
    /\ r.caller \in Users
    /\ r.project_id \in DOMAIN projects
    /\ projects[r.project_id].user_id = r.caller
    /\ r.session_id \in DOMAIN sessions
    /\ sessions[r.session_id].project_id = r.project_id

RowsOf(rows, session_id) == {rows[i] : i \in {j \in 1..Len(rows) : rows[j].chat_session_id = session_id}}

AllSpaces(text) == \A i \in 1..Len(text) : text[i] = " "

\* content is text without its leading and trailing whitespace
IsTrimOf(content, text) ==
    /\ content # <<>>
    /\ content[1] # " "
    /\ content[Len(content)] # " "
    /\ \E i \in 1..Len(text) :
         /\ i + Len(content) - 1 <= Len(text)
         /\ content = SubSeq(text, i, i + Len(content) - 1)
         /\ \A k \in 1..Len(text) : (k < i \/ k > i + Len(content) - 1) => text[k] = " "

\* number of maximal runs of non-whitespace characters
TokenCount(text) ==
    Cardinality({i \in 1..Len(text) : text[i] # " " /\ (i = 1 \/ text[i - 1] = " ")})

EndsWithEllipsis(title) ==
    /\ Len(title) >= 3
    /\ SubSeq(title, Len(title) - 2, Len(title)) = Ellipsis

\* every attempt of the generation call raised
GenerationFailed(r) ==
    /\ r.pc = "done"
    /\ r.last_error # "none"
    /\ r.ai_response = NoneValue

NoNetChange(r) ==
    /\ messages = r.pre_messages
    /\ sessions = r.pre_sessions

BothStored(r) ==
    /\ Len(messages) = Len(r.pre_messages) + 2
    /\ SubSeq(messages, 1, Len(r.pre_messages)) = r.pre_messages
    /\ LET u == messages[Len(messages) - 1]
           a == messages[Len(messages)]
       IN /\ u.role = "user" /\ u.chat_session_id = r.session_id
          /\ a.role = "assistant" /\ a.chat_session_id = r.session_id
    /\ sessions[r.session_id].updated_at > r.pre_sessions[r.session_id].updated_at
    /\ \A s \in DOMAIN sessions : s # r.session_id => sessions[s] = r.pre_sessions[s]

Alternates(rows) ==
    /\ Len(rows) % 2 = 0
    /\ \A i \in 1..Len(rows) : rows[i].role = IF i % 2 = 1 THEN "user" ELSE "assistant"
    /\ \A i \in 1..(Len(rows) - 1) : rows[i].created_at < rows[i + 1].created_at

----------------------------------------------------------------------------
(* Properties *)

\* C1: when every attempt of the generation call raises, the rows stored for
\* the session are those stored before the call (the user row is rolled back,
\* no assistant row exists) and the response status is 503.
C1_GenerationFailureRollsBack ==
    \A w \in Workers :
        GenerationFailed(rq[w]) =>
            /\ RowsOf(messages, rq[w].session_id)
                 = RowsOf(rq[w].pre_messages, rq[w].session_id)
            /\ messages = rq[w].pre_messages
            /\ rq[w].status = StatusUnavailable

C1_Witness ==
    \E w \in Workers :
        /\ GenerationFailed(rq[w])
        /\ rq[w].api_calls = DefaultMaxRetries
        /\ rq[w].last_error \in ApiErrors
        /\ rq[w].pre_messages # <<>>

\* C2: a turn is atomic: from its first step on, and after it returned on any
\* path, the store holds either exactly the pre-turn rows and session rows, or
\* the pre-turn rows followed by the turn's user and assistant rows together
\* with an advanced updated_at; never one of the two rows alone.
C2_TurnIsAtomic ==
    \A w \in Workers :
        rq[w].pc # "idle" =>
            /\ NoNetChange(rq[w]) \/ BothStored(rq[w])
            /\ Succeeded(rq[w]) <=> BothStored(rq[w])

C2_Witness ==
    \E w \in Workers :
        /\ Succeeded(rq[w])
        /\ BothStored(rq[w])
        /\ rq[w].pre_messages # <<>>

\* C3: in every committed state reached by turns issued one after another,
\* each session's rows ordered by created_at alternate user, assistant from a
\* user row to an assistant row, with strictly increasing created_at.
C3_PairedInvariant ==
    \A s \in DOMAIN sessions : Alternates(SessionMessages(messages, s))

C3_Witness ==
    \E w \in Workers :
        /\ GenerationFailed(rq[w])
        /\ Len(SessionMessages(messages, rq[w].session_id)) >= 2
        /\ Alternates(SessionMessages(messages, rq[w].session_id))

\* C4: a successful turn adds exactly two rows to the session: a user row
\* carrying the trimmed, non-empty text and an assistant row carrying the
\* generated content, the user row created strictly before the assistant row.
C4_SuccessAddsUserThenAssistant ==
    \A w \in Workers :
        Succeeded(rq[w]) =>
            LET r == rq[w]
                n == Len(r.pre_messages)
            IN /\ Len(messages) = n + 2
               /\ SubSeq(messages, 1, n) = r.pre_messages
               /\ messages[n + 1].role = "user"
               /\ IsTrimOf(messages[n + 1].content, r.body)
               /\ messages[n + 2].role = "assistant"
               /\ messages[n + 2].content = r.ai_response
               /\ r.ai_response \in Replies
               /\ messages[n + 1].chat_session_id = r.session_id
               /\ messages[n + 2].chat_session_id = r.session_id
               /\ messages[n + 1].created_at < messages[n + 2].created_at

C4_Witness ==
    \E w \in Workers :
        /\ Succeeded(rq[w])
        /\ Len(messages) = Len(rq[w].pre_messages) + 2
        /\ rq[w].body # messages[Len(messages) - 1].content

\* C5: after a successful turn the session's updated_at is at least the
\* created_at of the assistant row written by that turn.
C5_UpdatedAtNotBeforeAssistant ==
    \A w \in Workers :
        Succeeded(rq[w]) =>
            sessions[rq[w].session_id].updated_at
                >= messages[Len(messages)].created_at

\* C6: a message that is empty or only whitespace, sent by an authenticated
\* owner to a session of the project, is answered 400 with no generation call
\* and the messages and session rows (title, updated_at) unchanged.
C6_EmptyMessageRejected ==
    \A w \in Workers :
        (Addressed(rq[w]) /\ rq[w].body # NoJson /\ AllSpaces(rq[w].body)) =>
            /\ rq[w].pc = "done"
            /\ rq[w].status = StatusBadRequest
            /\ rq[w].api_calls = 0
            /\ messages = rq[w].pre_messages
            /\ sessions = rq[w].pre_sessions

C6_Witness ==
    \E w \in Workers :
        /\ Addressed(rq[w])
        /\ rq[w].body # NoJson
        /\ Len(rq[w].body) = 2
        /\ AllSpaces(rq[w].body)
        /\ rq[w].status = StatusBadRequest
        /\ rq[w].pre_messages # <<>>

\* C7: the history loaded for a turn is the rows committed before the turn:
\* the new user row is not among them, and the new text is sent exactly once,
\* as the last entry of the context.
C7_HistoryExcludesNewMessage ==
    \A w \in Workers :
        (rq[w].pc \in {"enter_chat", "calling", "persist"} \/ Succeeded(rq[w])) =>
            LET r == rq[w]
                before == SessionMessages(r.pre_messages, r.session_id)
            IN /\ r.previous_messages = before
               /\ Len(r.previous_messages) = Len(before)
               /\ Len(r.messages) =
                    (IF r.files_context # <<>> THEN 1 ELSE 0) + Len(before) + 1

\* C8: the sequence delivered to the external API is the system_prompt entry
\* (when non-empty), the file-context entry (when non-empty), the pre-turn
\* history in created_at order, and one final user entry with the new text.
C8_ContextPrecedence ==
    \A w \in Workers :
        rq[w].chat_messages # <<>> =>
            LET r == rq[w]
                before == SessionMessages(r.pre_messages, r.session_id)
                prompt == projects[r.project_id].system_prompt
            IN r.chat_messages =
                 (IF prompt # <<>> THEN <<Entry("system", prompt)>> ELSE <<>>)
                 \o (IF r.files_context # <<>>
                     THEN <<Entry("system", FilesIntro \o r.files_context)>> ELSE <<>>)
                 \o [i \in 1..Len(before) |-> Entry(before[i].role, before[i].content)]
                 \o <<Entry("user", r.user_message)>>

\* C9: a successful turn on a session with no prior rows and the title
\* "New Chat" leaves a title that is not the sentinel: the first five tokens
\* of the user's message joined by single spaces.
C9_FirstTurnSetsTitle ==
    \A w \in Workers :
        (/\ Succeeded(rq[w])
         /\ RowsOf(rq[w].pre_messages, rq[w].session_id) = {}
         /\ rq[w].pre_sessions[rq[w].session_id].title = NewChat) =>
            LET title == sessions[rq[w].session_id].title
                words == Split(rq[w].user_message)
            IN /\ title # NewChat
               /\ Len(words) <= TitleWords => title = Join(words, <<" ">>)

\* C10: the computed title ends with the ellipsis marker exactly when the
\* message has more than five whitespace-separated tokens.
C10_EllipsisIffMoreThanFive ==
    tt.applied =>
        (EndsWithEllipsis(tt.title) <=> TokenCount(tt.user_message) > TitleWords)

----------------------------------------------------------------------------
(* Vocabulary of the properties on retries, files and session metadata *)


\* the step is the commit of a successful turn on session s
CommitsTurnOn(s) ==
    \E w \in Workers :
        /\ rq[w].pc = "persist"
        /\ rq[w].session_id = s
        /\ rq'[w].pc = "done"
        /\ rq'[w].status = StatusOk

ExhaustionMessages ==
    {<<"RateLimitError", "OpenAI rate limit exceeded. Please try again later.">>,
     <<"APIConnectionError",
       "Failed to connect to OpenAI API. Please check your internet connection.">>,
     <<"APIError", "OpenAI API error: {e}">>,
     <<"Exception", "Failed to generate chat response: {e}">>}

SummaryF1 == <<"File '", "f1.txt", "':\n", "F1 content", "\n">>
SummaryF2 == <<"File '", "f2.pdf", "' (PDF):\n", "F2 text", "\n">>

\* the summaries of the readable files of the project, in upload order,
\* joined by newlines
ExpectedFilesContext(project_id, unreadable) ==
    IF project_id # 1 THEN <<>>
    ELSE IF unreadable = {} THEN SummaryF1 \o <<"\n">> \o SummaryF2
    ELSE IF unreadable = {"t_f1.txt"} THEN SummaryF2
    ELSE IF unreadable = {"t_f2.pdf"} THEN SummaryF1
    ELSE <<>>

----------------------------------------------------------------------------
(* Properties, continued *)

\* C11: a step changes a session's title only when it commits a successful
\* turn on a session that had no rows and still had the title "New Chat"; so
\* a title is rewritten at most once, and never by a failed turn or by a turn
\* on a session with prior rows.
C11_TitleRewrittenAtMostOnce ==
    [][\A s \in DOMAIN sessions :
          sessions'[s].title # sessions[s].title =>
              /\ sessions[s].title = NewChat
              /\ RowsOf(messages, s) = {}
              /\ CommitsTurnOn(s)]_vars

C11_Witness ==
    \E w \in Workers :
        /\ Succeeded(rq[w])
        /\ RowsOf(rq[w].pre_messages, rq[w].session_id) # {}
        /\ sessions[rq[w].session_id].title
             = rq[w].pre_sessions[rq[w].session_id].title
        /\ \E i \in 1..Len(rq[w].pre_messages) :
             rq[w].pre_messages[i].content # rq[w].user_message

\* C12: for max_retries n >= 1, once n calls of the external API have all
\* failed, chat_with_openai has raised: exactly n calls were made and the
\* exception is the one the except clause of the last error raises.
C12_ExhaustionAfterNCalls ==
    \A w \in Workers :
        LET r == rq[w] IN
        /\ (r.max_retries >= 1 /\ r.api_calls >= r.max_retries
            /\ r.ai_response = NoneValue) =>
               /\ r.pc = "done"
               /\ r.api_calls = r.max_retries
               /\ r.status = StatusUnavailable
               /\ <<r.last_error, r.raised>> \in ExhaustionMessages
        /\ (r.pc = "done" /\ r.last_error \in ApiErrors /\ r.ai_response = NoneValue) =>
               r.api_calls = r.max_retries

C12_Witness ==
    \E w \in Workers :
        /\ rq[w].pc = "done"
        /\ rq[w].max_retries = MaxRetries
        /\ rq[w].api_calls = MaxRetries
        /\ rq[w].last_error = "RateLimitError"
        /\ rq[w].raised = "OpenAI rate limit exceeded. Please try again later."

\* C13: when the first call of the external API fails with an error that is
\* not a rate-limit, connection or API error, chat_with_openai has failed
\* with that one call and without a backoff sleep.
C13_NonTransientFailsAtOnce ==
    \A w \in Workers :
        (/\ rq[w].max_retries >= 1
         /\ rq[w].api_calls = 1
         /\ rq[w].last_error = "Exception"
         /\ rq[w].ai_response = NoneValue) =>
            /\ rq[w].pc = "done"
            /\ rq[w].waits = <<>>

\* C14: without an API key no call of the external API and no sleep is ever
\* made, and a turn that reaches the generation call ends with status 503 and
\* the messages and sessions it found.
C14_UnconfiguredFailsBeforeAnyCall ==
    \A w \in Workers :
        ~openai =>
            /\ rq[w].api_calls = 0
            /\ rq[w].waits = <<>>
            /\ rq[w].pc \notin {"calling", "persist"}
            /\ (rq[w].pc = "done" /\ rq[w].messages # <<>>) =>
                   /\ rq[w].status = StatusUnavailable
                   /\ rq[w].raised = "OpenAI API key is not configured"
                   /\ messages = rq[w].pre_messages
                   /\ sessions = rq[w].pre_sessions

C14_Witness ==
    \E w \in Workers :
        /\ ~openai
        /\ rq[w].pc = "done"
        /\ rq[w].messages # <<>>
        /\ rq[w].status = StatusUnavailable

\* C15: whatever subset of the project's files fails to be read, the turn
\* goes on to the generation call, and the file context is the summaries of
\* the readable files, unchanged and in upload order (empty when the project
\* has no file or every read failed).
C15_ExtractionFailureIsAbsorbed ==
    \A w \in Workers :
        LET r == rq[w]
            expected == ExpectedFilesContext(r.project_id, r.unreadable)
        IN /\ r.messages # <<>> =>
                /\ r.files_context = expected
                /\ expected # <<>> =>
                       r.messages[1] = Entry("system", FilesIntro \o expected)
                /\ expected = <<>> => r.messages[1].role # "system"
           /\ r.unreadable # {} =>
                /\ r.messages # <<>>
                /\ (openai /\ r.pc = "done") => r.api_calls >= 1

C15_Witness ==
    \E w \in Workers :
        /\ Succeeded(rq[w])
        /\ rq[w].unreadable = {"t_f1.txt"}
        /\ rq[w].files_context = SummaryF2

\* C16: when the commit after a successful generation raises, the store holds
\* the pre-turn messages and session rows (title and updated_at included) and
\* the response status is 500.
C16_PersistFailureRollsBack ==
    \A w \in Workers :
        (rq[w].pc = "done" /\ rq[w].ai_response \in Replies
         /\ rq[w].status # StatusOk) =>
            /\ rq[w].status = StatusServerError
            /\ messages = rq[w].pre_messages
            /\ sessions = rq[w].pre_sessions

C16_Witness ==
    \E w \in Workers :
        /\ rq[w].pc = "done"
        /\ rq[w].ai_response \in Replies
        /\ rq[w].status = StatusServerError
        /\ rq[w].pre_messages # <<>>

\* C17: a turn by an authenticated caller for a project that is not the
\* caller's, or for a session that is not of that project, is answered 404
\* and changes nothing.
C17_NotFoundIsReported ==
    \A w \in Workers :
        (/\ rq[w].pc = "done"
         /\ rq[w].caller \in Users
         /\ \/ rq[w].project_id \notin DOMAIN projects
            \/ projects[rq[w].project_id].user_id # rq[w].caller
            \/ rq[w].session_id \notin DOMAIN sessions
            \/ sessions[rq[w].session_id].project_id # rq[w].project_id) =>
            /\ rq[w].status = StatusNotFound
            /\ messages = rq[w].pre_messages
            /\ sessions = rq[w].pre_sessions

\* C19: a session's updated_at never decreases, strictly advances in the step
\* that commits a successful turn on it, and is unchanged by every other step.
C19_UpdatedAtMonotonic ==
    [][\A s \in DOMAIN sessions :
          /\ sessions'[s].updated_at >= sessions[s].updated_at
          /\ CommitsTurnOn(s) => sessions'[s].updated_at > sessions[s].updated_at
          /\ ~CommitsTurnOn(s) => sessions'[s].updated_at = sessions[s].updated_at]_vars

C19_Witness ==
    \E w \in Workers :
        /\ Succeeded(rq[w])
        /\ rq[w].pre_sessions[rq[w].session_id].updated_at > 0
        /\ sessions[rq[w].session_id].updated_at
             > rq[w].pre_sessions[rq[w].session_id].updated_at

\* C20: a dispatched turn makes at most max_retries calls of the external API
\* and at most max_retries - 1 backoff sleeps, and always reaches a terminal
\* outcome.
C20_TurnTerminates ==
    /\ [](\A w \in Workers :
            rq[w].max_retries >= 1 =>
                /\ rq[w].api_calls <= rq[w].max_retries
                /\ Len(rq[w].waits) <= rq[w].max_retries - 1)
    /\ \A w \in Workers :
         (rq[w].pc \in {"enter_chat", "calling", "persist"}) ~> (rq[w].pc = "done")

C20_Witness ==
    \E w \in Workers :
        /\ rq[w].pc = "done"
        /\ rq[w].max_retries = DefaultMaxRetries
        /\ rq[w].api_calls = DefaultMaxRetries
        /\ Len(rq[w].waits) = DefaultMaxRetries - 1

\* a step of delete_project: no other handler moved
DeleteStep == dq' # dq \/ (UNCHANGED <<rq, reg, uq>> /\ ~UNCHANGED vars)

DeletedSessions == {s \in DOMAIN sessions : sessions[s].project_id = dq'.project_id}

RowsOfProject(rows, project_id) ==
    LET OfProject(r) == r.project_id = project_id
    IN SelectSeq(rows, OfProject)

RowsOfOthers(rows, project_id) ==
    LET OfOther(r) == r.project_id # project_id
    IN SelectSeq(rows, OfOther)

MessagesOutside(rows, session_ids) ==
    LET Outside(m) == m.chat_session_id \notin session_ids
    IN SelectSeq(rows, Outside)

\* after the step no row of the deleted project is stored
NoRowRemains ==
    /\ dq'.project_id \notin DOMAIN projects'
    /\ \A s \in DOMAIN sessions' : sessions'[s].project_id # dq'.project_id
    /\ \A i \in DOMAIN messages' : messages'[i].chat_session_id \notin DeletedSessions
    /\ RowsOfProject(prompts', dq'.project_id) = <<>>
    /\ RowsOfProject(uploaded_files', dq'.project_id) = <<>>

\* after the step no file of an upload of the deleted project is on disk
NoBackingFileRemains ==
    \A i \in DOMAIN uploaded_files :
        uploaded_files[i].project_id = dq'.project_id
            => uploaded_files[i].filename \notin DOMAIN disk'

\* the step left the rows and files of the other projects as they were
OthersUnchanged ==
    /\ \A p \in DOMAIN projects \ {dq'.project_id} :
          p \in DOMAIN projects' /\ projects'[p] = projects[p]
    /\ \A s \in DOMAIN sessions \ DeletedSessions :
          s \in DOMAIN sessions' /\ sessions'[s] = sessions[s]
    /\ MessagesOutside(messages', DeletedSessions)
          = MessagesOutside(messages, DeletedSessions)
    /\ RowsOfOthers(prompts', dq'.project_id) = RowsOfOthers(prompts, dq'.project_id)
    /\ RowsOfOthers(uploaded_files', dq'.project_id)
          = RowsOfOthers(uploaded_files, dq'.project_id)
    /\ \A i \in DOMAIN uploaded_files :
          uploaded_files[i].project_id # dq'.project_id
              => LET filename == uploaded_files[i].filename
                 IN IF filename \in DOMAIN disk
                    THEN /\ filename \in DOMAIN disk'
                         /\ disk'[filename] = disk[filename]
                    ELSE filename \notin DOMAIN disk'

\* C18: after a successful delete_project no ChatSession, ChatMessage, Prompt
\* or UploadedFile row of the project remains and no backing file of its
\* uploads remains on disk; rows and files of other projects are unchanged.
C18_DeleteRemovesRowsAndFiles ==
    [][(DeleteStep /\ dq'.status = StatusOk)
          => NoRowRemains /\ NoBackingFileRemains /\ OthersUnchanged]_vars

\* the part of C18 about the rows and about the other projects
DeleteRemovesRows ==
    [][(DeleteStep /\ dq'.status = StatusOk) => NoRowRemains /\ OthersUnchanged]_vars

\* number of system entries of a context
SystemEntries(entries) ==
    Cardinality({i \in 1..Len(entries) : entries[i].role = "system"})

\* the part of C23 about the system entries alone
NoEmptySystemEntry ==
    \A w \in Workers :
        rq[w].chat_messages # <<>> =>
            LET r == rq[w]
                prompt == projects[r.project_id].system_prompt
            IN /\ SystemEntries(r.chat_messages) =
                    (IF prompt # <<>> THEN 1 ELSE 0)
                    + (IF r.files_context # <<>> THEN 1 ELSE 0)
               /\ \A i \in 1..Len(r.chat_messages) :
                     r.chat_messages[i].role = "system" =>
                        r.chat_messages[i].content \notin {<<>>, FilesIntro}

\* C23: the context sent to the API has no system entry for an empty
\* system_prompt and none for an empty file context; when both are empty it
\* is the pre-turn history followed by the new user message only.
C23_NoSystemEntryForEmptyInput ==
    /\ NoEmptySystemEntry
    /\ \A w \in Workers :
         LET r == rq[w]
             before == SessionMessages(r.pre_messages, r.session_id)
         IN (/\ r.chat_messages # <<>>
             /\ projects[r.project_id].system_prompt = <<>>
             /\ r.files_context = <<>>) =>
                r.chat_messages =
                    [i \in 1..Len(before) |-> Entry(before[i].role, before[i].content)]
                    \o <<Entry("user", r.user_message)>>

\* C24: chat_with_openai returns normally only with the content of a
\* successful call of the external API, for every value of max_retries.
C24_ReturnsOnlyAfterSuccess ==
    \A w \in Workers :
        rq[w].pc = "persist" =>
            /\ rq[w].api_calls >= 1
            /\ rq[w].ai_response \in Replies

\* 2^k, by repeated doubling
RECURSIVE Doubled(_)
Doubled(k) == IF k = 0 THEN 1 ELSE Doubled(k - 1) + Doubled(k - 1)

\* C25: the wait after failed attempt k (from 0) is 2^k + 1, the waits are
\* strictly increasing, and there is no wait after the final attempt or after
\* a successful one.
C25_BackoffSchedule ==
    \A w \in Workers :
        LET r == rq[w] IN
        /\ \A i \in 1..Len(r.waits) : r.waits[i] = Doubled(i - 1) + 1
        /\ \A i \in 1..(Len(r.waits) - 1) : r.waits[i] < r.waits[i + 1]
        /\ r.pc = "calling" => Len(r.waits) = r.api_calls
        /\ (r.pc \in {"persist", "done"} /\ r.api_calls >= 1) =>
               Len(r.waits) = r.api_calls - 1

C25_Witness ==
    \E w \in Workers :
        /\ rq[w].pc = "done"
        /\ rq[w].last_error \in ApiErrors
        /\ rq[w].waits = <<2, 3, 5>>

\* C27: when call number k is the first to succeed, exactly k calls and
\* k - 1 sleeps were made and the content of call k is returned; no sequence
\* of outcomes makes more than max_retries calls.
C27_StopsAtFirstSuccess ==
    \A w \in Workers :
        LET r == rq[w] IN
        /\ r.ai_response # NoneValue =>
               /\ r.pc \in {"persist", "done"}
               /\ r.ai_response \in Replies
               /\ 1 <= r.api_calls /\ r.api_calls <= r.max_retries
               /\ Len(r.waits) = r.api_calls - 1
               /\ r.attempt = r.api_calls - 1
        /\ r.api_calls <= (IF r.max_retries > 0 THEN r.max_retries ELSE 0)

C27_Witness ==
    \E w \in Workers :
        /\ rq[w].pc = "persist"
        /\ rq[w].ai_response \in Replies
        /\ rq[w].api_calls = 3
        /\ Len(rq[w].waits) = 2

\* C29: a delete_project that returns an error leaves the projects, every
\* child row and the files on disk as they were before the call.
C29_FailedDeleteChangesNothing ==
    [][(DeleteStep /\ dq'.status \in {StatusUnauthorized, StatusNotFound,
                                       StatusServerError})
          => UNCHANGED <<projects, sessions, messages, prompts, uploaded_files,
                         disk>>]_vars

\* the email a request asks for: trimmed and lower-cased
Canon(text) == Lower(Strip(text))

\* the request is well formed: JSON with a valid email and a long enough password
WellFormed(r) ==
    /\ r.has_json
    /\ validate_email(Canon(r.email_in))
    /\ Len(r.password) >= MinPasswordLen

\* C30: no two stored users have the same email after trimming and
\* lower-casing; a well-formed register request whose email is stored when
\* the request looks it up returns 409; and a user is created only by a
\* well-formed request that returns 201, one user with the requested email.
C30_EmailsStayUnique ==
    /\ [](\A i, j \in 1..Len(users) :
            i # j => Canon(users[i].email) # Canon(users[j].email))
    /\ [](\A w \in Workers :
            (/\ reg[w].pc \in {"commit", "done"}
             /\ WellFormed(reg[w])
             /\ \E i \in 1..Len(reg[w].pre_users) :
                   Canon(reg[w].pre_users[i].email) = Canon(reg[w].email_in)) =>
                /\ reg[w].pc = "done"
                /\ reg[w].status = StatusConflict)
    /\ [][users' # users =>
            \E w \in Workers :
                /\ WellFormed(reg[w])
                /\ reg'[w].pc = "done"
                /\ reg'[w].status = StatusCreated
                /\ Len(users') = Len(users) + 1
                /\ SubSeq(users', 1, Len(users)) = users
                /\ users'[Len(users')].email = Canon(reg[w].email_in)]_vars
    /\ [](\A w \in Workers :
            (reg[w].pc = "done" /\ reg[w].status = StatusCreated) => WellFormed(reg[w]))

\* two requests for one email raced: one was created, the other failed
C30_Witness ==
    /\ reg[1].pc = "done" /\ reg[1].status = StatusCreated
    /\ reg[2].pc = "done" /\ reg[2].status = StatusServerError
    /\ reg[1].email = reg[2].email
    /\ reg[1].email_in # reg[2].email_in
    /\ reg[2].pre_users = <<>>
    /\ Len(users) = 1

Roles(rows) == [i \in 1..Len(rows) |-> rows[i].role]

CountOf(role, rows, n) == Cardinality({i \in 1..n : rows[i].role = role})

\* C28 as stated: with turns on one session handled at once, every committed
\* state has as many user as assistant rows of the session and its rows in
\* created_at order strictly alternate user, assistant.
C28_ConcurrentTurnsAlternate ==
    \A s \in DOMAIN sessions :
        LET rows == SessionMessages(messages, s)
        IN /\ CountOf("user", rows, Len(rows)) = CountOf("assistant", rows, Len(rows))
           /\ \A i \in 1..Len(rows) :
                 rows[i].role = (IF i % 2 = 1 THEN "user" ELSE "assistant")

\* C28 amended: with turns on one session handled at once, every committed
\* state has as many user as assistant rows of the session, and in created_at
\* order no assistant row comes before the user row of its turn (every prefix
\* has at least as many user rows as assistant rows); the rows need not
\* alternate.
C28_ConcurrentTurnsStayPaired ==
    \A s \in DOMAIN sessions :
        LET rows == SessionMessages(messages, s)
        IN /\ CountOf("user", rows, Len(rows)) = CountOf("assistant", rows, Len(rows))
           /\ \A n \in 1..Len(rows) :
                 CountOf("user", rows, n) >= CountOf("assistant", rows, n)

\* both turns committed and their rows interleave
C28_Witness ==
    /\ Succeeded(rq[1]) /\ Succeeded(rq[2])
    /\ Roles(SessionMessages(messages, 2)) = <<"user", "user", "assistant", "assistant">>

\* a step in which the upload of worker w returned
UploadReturns(w) == uq[w].pc = "saved" /\ uq'[w].pc = "done"

\* the part of C21 about the moment an upload returns: a failed upload has
\* stored no row and its file is gone, a successful one has stored one row
\* and its file exists; and rows are stored by successful uploads only
UploadOutcomeAtReturn ==
    [][/\ \A w \in Workers :
            UploadReturns(w) =>
                IF uq'[w].stored
                THEN /\ Len(uploaded_files') = Len(uploaded_files) + 1
                     /\ SubSeq(uploaded_files', 1, Len(uploaded_files)) = uploaded_files
                     /\ uploaded_files'[Len(uploaded_files')].filename = uq[w].filename
                     /\ uploaded_files'[Len(uploaded_files')].project_id = uq[w].project_id
                     /\ uq[w].filename \in DOMAIN disk'
                ELSE /\ uploaded_files' = uploaded_files
                     /\ uq[w].filename \notin DOMAIN disk'
       /\ (Len(uploaded_files') > Len(uploaded_files)) =>
              \E w \in Workers : UploadReturns(w) /\ uq'[w].stored]_vars

\* C21: an upload that fails stores no row and leaves no local file, one that
\* succeeds stores exactly one row whose file exists; and every stored
\* UploadedFile row has its backing file as long as no deletion of a project
\* was asked for.
C21_RowsHaveBackingFiles ==
    /\ UploadOutcomeAtReturn
    /\ [](dq.status = 0 =>
            \A i \in DOMAIN uploaded_files :
                uploaded_files[i].filename \in DOMAIN disk)

\* C22: the file of a registered upload keeps its bytes through every step
\* that is not a deletion of its project, and no two registered uploads have
\* the same stored filename.
C22_BackingBytesWrittenOnce ==
    /\ [][\A i \in DOMAIN uploaded_files :
            LET f == uploaded_files[i] IN
            (/\ f.filename \in DOMAIN disk
             /\ ~(DeleteStep /\ dq'.project_id = f.project_id)) =>
                /\ f.filename \in DOMAIN disk'
                /\ disk'[f.filename] = disk[f.filename]]_vars
    /\ [](\A i, j \in DOMAIN uploaded_files :
            i # j => uploaded_files[i].filename # uploaded_files[j].filename)

\* the callers of the requests that moved in a step
Actors ==
    {rq'[w].caller : w \in {v \in Workers : rq'[v] # rq[v]}}
    \cup {uq'[w].caller : w \in {v \in Workers : uq'[v] # uq[v]}}
    \cup (IF DeleteStep THEN {dq'.caller} ELSE {})

SessionsOfProject(p) == {s \in DOMAIN sessions : sessions[s].project_id = p}

\* the step left the rows of project p as they were
RowsUntouched(p) ==
    /\ p \in DOMAIN projects' /\ projects'[p] = projects[p]
    /\ \A s \in SessionsOfProject(p) : s \in DOMAIN sessions' /\ sessions'[s] = sessions[s]
    /\ \A s \in DOMAIN sessions' : sessions'[s].project_id = p => s \in DOMAIN sessions
    /\ MessagesOutside(messages', DOMAIN sessions' \ SessionsOfProject(p))
          = MessagesOutside(messages, DOMAIN sessions \ SessionsOfProject(p))
    /\ RowsOfProject(uploaded_files', p) = RowsOfProject(uploaded_files, p)
    /\ RowsOfProject(prompts', p) = RowsOfProject(prompts, p)

\* the step left the files of the uploads of project p as they were
FilesUntouched(p) ==
    \A i \in DOMAIN uploaded_files :
        (uploaded_files[i].project_id = p /\ uploaded_files[i].filename \in DOMAIN disk) =>
            /\ uploaded_files[i].filename \in DOMAIN disk'
            /\ disk'[uploaded_files[i].filename] = disk[uploaded_files[i].filename]

\* a step of send_message that changes the committed messages appends rows of
\* the session of the request, which is of the project of the request, which
\* is owned by the caller
AppendsToOwnSession ==
    \A w \in Workers :
        (rq'[w] # rq[w] /\ messages' # messages) =>
            /\ Addressed(rq'[w])
            /\ Len(messages') > Len(messages)
            /\ SubSeq(messages', 1, Len(messages)) = messages
            /\ \A i \in (Len(messages) + 1)..Len(messages') :
                  messages'[i].chat_session_id = rq'[w].session_id

\* the part of C26 about the rows of the database
TenantRowsIsolated ==
    [][/\ AppendsToOwnSession
       /\ \A a \in Actors : \A p \in DOMAIN projects :
              projects[p].user_id # a => RowsUntouched(p)]_vars

\* C26: send_message appends only to a session of the project of the request
\* and only for the owner of that project, and no request of a user creates,
\* changes or deletes a project, session, message, upload row or uploaded file
\* of a project of another user.
C26_TenantIsolation ==
    [][/\ AppendsToOwnSession
       /\ \A a \in Actors : \A p \in DOMAIN projects :
              projects[p].user_id # a => RowsUntouched(p) /\ FilesUntouched(p)]_vars

====
